---- MODULE Spec2Model ----
(***************************************************************************)
(* TailsitterPitchProgram (modules/transition_logic/                       *)
(* tailsitter_pitch_program.py): the execute_transition coroutine, the     *)
(* ramping and monitoring tasks it forks, the abort and post-transition    *)
(* sequences, the asyncio command_lock and the three events.               *)
(*                                                                         *)
(* One step of the model is one run of a coroutine from the point where    *)
(* the event loop resumes it to its next suspension point (an awaited      *)
(* autopilot command, a contended lock, a sleep, asyncio.wait/gather):     *)
(* asyncio is cooperative, so nothing interleaves inside such a run.       *)
(* Every autopilot command is an awaited call that either returns or       *)
(* raises.  asyncio.CancelledError is a BaseException (Python >= 3.8), so  *)
(* "except Exception" does not catch it.                                   *)
(*                                                                         *)
(* Units: metres, degrees, m/s for airspeed, dm/s for the climb rate,      *)
(* percent for thrust.                                                     *)
(***************************************************************************)
EXTENDS Integers, Sequences, FiniteSets, TLC

\* ------------------------------------------------- configuration defaults
max_roll_failsafe == 30
max_altitude_failsafe == 200
max_pitch_failsafe == 130
altitude_loss_limit == 20
climb_rate_failsafe_threshold == 3
transition_air_speed == 20
transition_timeout == 1
retries == 3
default_throttle == 70
max_throttle == 80
max_tilt_pitch == 7
max_allowed_tilt == 9
throttle_steps == 2
tilt_steps == 3
None == -999
MaxStops == 2
RampDelay == 1

Tasks == {"exec", "ramp", "mon"}

\* The four values of PostTransitionAction, and a name that is none of them.
PostActions ==
    {"continue_current_heading", "hold", "return_to_launch",
     "start_mission_from_waypoint", "loiter"}

\* The altitude parameters of a run: the defaults, and a configuration with
\* every altitude set to zero (climb targets met on the ground).
AltitudeProfiles ==
    { [initial_climb_height |-> 5, transition_base_altitude |-> 10,
       altitude_failsafe_threshold |-> 10],
      [initial_climb_height |-> 0, transition_base_altitude |-> 0,
       altitude_failsafe_threshold |-> 0] }

\* config["transition_yaw_angle"]: main_control overwrites it with --yaw,
\* whose default is -1; 90 stands for an explicit heading.
TransitionYawAngles == {-1, 90}

\* config["max_tilt_pitch"]: the default, whose quotient by tilt_steps falls
\* short, and a value that tilt_steps divides exactly.
MaxTiltPitches == {max_tilt_pitch - 1, max_tilt_pitch}

AllConfigs ==
    [ safety_lock : BOOLEAN,
      failsafe_multicopter_transition : BOOLEAN,
      over_tilt_enabled : BOOLEAN,
      alt : AltitudeProfiles,
      transition_yaw_angle : TransitionYawAngles,
      enable_takeoff : BOOLEAN,
      max_tilt_pitch : MaxTiltPitches ]

\* The options as the command line and a take-off configuration give them.
UsualOptions(c) ==
    /\ c.transition_yaw_angle = -1
    /\ c.enable_takeoff
    /\ c.max_tilt_pitch = max_tilt_pitch

\* At most one option differs from the usual ones.
OneOptionVaried(c) ==
    \/ c.transition_yaw_angle = -1 /\ c.enable_takeoff
    \/ c.transition_yaw_angle = -1 /\ c.max_tilt_pitch = max_tilt_pitch
    \/ c.enable_takeoff /\ c.max_tilt_pitch = max_tilt_pitch

\* The default flight parameters.
DefaultFlight(c) ==
    /\ ~c.safety_lock
    /\ c.failsafe_multicopter_transition
    /\ c.over_tilt_enabled
    /\ c.alt.initial_climb_height = 5

\* config["post_transition_action"] is kept apart, in post_action.  The yaw,
\* take-off and tilt options are varied one at a time on the default flight
\* parameters, the flight parameters under the usual options.
Configs ==
    { c \in AllConfigs :
        UsualOptions(c) \/ (DefaultFlight(c) /\ OneOptionVaried(c)) }

\* self.launch_yaw_angle: set in __init__ and assigned nowhere else.
launch_yaw_angle == 0

\* ------------------------------------------------------- telemetry values
Slots == {"position_velocity_ned"}
\* The four streams of TelemetryHandler, named by their telemetry_data key.
Streams ==
    {"battery", "fixedwing_metrics", "euler_angle", "position_velocity_ned"}
AltVals == {-25, 0, 7, 25, 250}
RollVals == {0, 35}
PitchVals == {0, -140}
ClimbVals == {0, 5}
AirspeedVals == {0, 20}
ThrottleVals == {default_throttle, 90}
ElapsedVals == {0, transition_timeout + 1}

NoSnap == [live |-> FALSE]

VARIABLES
    config,                 \* self.config
    post_action,            \* config["post_transition_action"], once read
    present,                \* keys of telemetry_handler.telemetry_data
    pc,                     \* where each coroutine is suspended
    ret,                    \* what follows abort_transition in its caller
    taskres,                \* outcome of the ramping and monitoring tasks
    result,                 \* what execute_transition returned
    holder, lockq,          \* command_lock: owner and FIFO of waiters
    inflight,               \* the command each coroutine is awaiting
    attempt,                \* start_offboard: attempt
    rejected,               \* start_offboard: OffboardErrors of offboard.start()
    abort_event, transition_event, ramping_started_event,
    step, tilt, throttle,   \* ramp_throttle_and_tilt locals
    throttle_step,
    fwd_transition_start_time,  \* self.fwd_transition_start_time
    over,                   \* ramping is in its over-tilt loop
    over_tilt_steps,
    snap,                   \* the monitoring cycle run by the last step
    max_altitude,           \* monitor_and_switch: max_altitude
    elapsed_time,           \* monitor_and_switch: elapsed_time
    fw_completed,           \* transition_to_fixedwing returned without error
    must_cancel,            \* task.cancel() was called on the task
    cancelled_ext,          \* the caller cancelled execute_transition
    stepped,                \* tasks run since execute_transition became ready
    telemetry_data,         \* TelemetryHandler: keys of telemetry_data
    subscriptions,          \* TelemetryHandler: streams of self.subscriptions
    sub,                    \* state of each task of self.subscriptions
    sub_cancel,             \* task.cancel() called, not yet delivered
    orphans,                \* running subscribers no longer in the list
    stop_pc,                \* where stop_telemetry is suspended
    stops,                  \* stop_telemetry calls returned in a row
    stop_raised,            \* a stop_telemetry call ended with an exception
    exit_code               \* exit status of the process, once main has ended

vars == << config, post_action, present, pc, ret, taskres, result, holder,
           lockq, inflight,
           attempt, rejected, abort_event, transition_event,
           ramping_started_event, step, tilt, throttle, throttle_step,
             fwd_transition_start_time,
           over, over_tilt_steps, snap,
           max_altitude, elapsed_time, fw_completed, must_cancel,
           cancelled_ext, stepped, telemetry_data, subscriptions, sub,
           sub_cancel, orphans, stop_pc, stops, stop_raised, exit_code >>

envv == << config, post_action, present >>
ctlv == << pc, holder, lockq, inflight >>
taskv == << taskres, must_cancel >>
execv == << result, attempt, rejected >>
evv == << abort_event, transition_event, ramping_started_event >>
rampv == << step, tilt, throttle, throttle_step, over, over_tilt_steps,
           fwd_transition_start_time >>
monv == << max_altitude, elapsed_time, fw_completed >>
telv == << telemetry_data, subscriptions, sub, sub_cancel, orphans, stop_pc,
          stops, stop_raised >>

\* snap records the monitoring cycle run by the last step, if that step was
\* one: every other step drops it.
NoCycle == snap' = NoSnap

\* A climb loop evaluated altitude a at its top: the step's record is that
\* altitude instead of a monitoring cycle.
ClimbRead(a) == snap' = [live |-> FALSE, climb_altitude |-> a]

\* The command awaited at each command site of the source.
CmdOf(site) ==
    CASE site = "arm" -> "arm"
      [] site = "set_takeoff_altitude" -> "set_takeoff_altitude"
      [] site = "takeoff" -> "takeoff"
      [] site = "ob_setpoint" -> "set_velocity_body"
      [] site = "ob_start" -> "offboard_start"
      [] site = "climb1" -> "set_velocity_body"
      [] site = "climb2" -> "set_velocity_ned"
      [] site = "ramp_att" -> "set_attitude"
      [] site = "over_att" -> "set_attitude"
      [] site = "st_accel" -> "set_velocity_body"
      [] site = "st_stop" -> "offboard_stop"
      [] site = "st_fw" -> "transition_to_fixedwing"
      [] site = "pa_hold" -> "hold"
      [] site = "pa_rtl" -> "return_to_launch"
      [] site = "pa_fallback" -> "return_to_launch"
      [] site = "cch_body" -> "set_velocity_body"
      [] site = "cch_ned" -> "set_velocity_ned"
      [] site = "ms_download" -> "download_mission"
      [] site = "ms_set" -> "set_current_mission_item"
      [] site = "ms_start" -> "start_mission"
      [] site = "ab_mc" -> "transition_to_multicopter"
      [] site = "ab_stop" -> "offboard_stop"
      [] site = "ab_rtl" -> "return_to_launch"
      [] OTHER -> "none"

\* The yaw argument of the setpoint commanded at a site: the NED climb
\* setpoint and both attitude setpoints pass config["transition_yaw_angle"].
yaw_deg(site) ==
    IF site \in {"climb2", "ramp_att", "over_att"}
    THEN config.transition_yaw_angle
    ELSE None

\* ------------------------------------------------------------ command_lock
\* asyncio.Lock is FIFO: release() wakes the first waiter, and acquire() does
\* not take a free lock past a waiter, so a release hands the lock over.

\* Coroutine t, holding no lock, reaches "async with self.command_lock" at
\* a command site: it takes a free lock and awaits the command, or queues.
Arrive(t, site) ==
    /\ IF holder = "none"
       THEN /\ holder' = t
            /\ lockq' = lockq
            /\ inflight' = [inflight EXCEPT ![t] = CmdOf(site)]
       ELSE /\ holder' = holder
            /\ lockq' = Append(lockq, t)
            /\ inflight' = [inflight EXCEPT ![t] = "none"]
    /\ pc' = [pc EXCEPT ![t] = site]

\* Coroutine t leaves an "async with" block (normally or by an exception)
\* and, with no suspension in between, reaches the next one at `site`.
ReleaseArrive(t, site) ==
    /\ IF lockq = << >>
       THEN /\ holder' = t
            /\ lockq' = lockq
            /\ inflight' = [inflight EXCEPT ![t] = CmdOf(site)]
       ELSE /\ holder' = Head(lockq)
            /\ lockq' = Append(Tail(lockq), t)
            /\ inflight' = [inflight EXCEPT ![t] = "none"]
    /\ pc' = [pc EXCEPT ![t] = site]

\* Coroutine t leaves an "async with" block and suspends or ends at lbl.
ReleaseTo(t, lbl) ==
    /\ holder' = (IF lockq = << >> THEN "none" ELSE Head(lockq))
    /\ lockq' = (IF lockq = << >> THEN lockq ELSE Tail(lockq))
    /\ inflight' = [inflight EXCEPT ![t] = "none"]
    /\ pc' = [pc EXCEPT ![t] = lbl]

\* Coroutine t awaits the next command of the same "async with" block.
Held(t, site) ==
    /\ inflight' = [inflight EXCEPT ![t] = CmdOf(site)]
    /\ pc' = [pc EXCEPT ![t] = site]
    /\ UNCHANGED << holder, lockq >>

\* Coroutine t moves between two points, neither inside "async with".
Jump(t, lbl) ==
    /\ pc' = [pc EXCEPT ![t] = lbl]
    /\ UNCHANGED << holder, lockq, inflight >>

\* Coroutine t is resumed with the outcome of the command it awaits at site.
Returns(t, site) ==
    /\ pc[t] = site
    /\ inflight[t] = CmdOf(site)
    /\ ~must_cancel[t]

\* Coroutine t is resumed from a sleep (or is started) at lbl.
Resumes(t, lbl) ==
    /\ pc[t] = lbl
    /\ ~must_cancel[t]

\* A queued coroutine has been handed the lock and awaits its command.
LockGranted(t) ==
    /\ holder = t
    /\ inflight[t] = "none"
    /\ CmdOf(pc[t]) # "none"
    /\ ~must_cancel[t]
    /\ inflight' = [inflight EXCEPT ![t] = CmdOf(pc[t])]
    /\ UNCHANGED << pc, holder, lockq >>
    /\ UNCHANGED << envv, ret, taskv, execv, evv, rampv, monv >>
    /\ NoCycle

\* ---------------------------------------------------------- telemetry cache
\* get_telemetry(): a slot that no subscriber has written yet is absent and
\* is read as its default; a slot is never removed once written.  A slot
\* written during the run reads like a slot that was written before it and
\* held the default until then (the value sets contain the defaults), so
\* the set of written slots is fixed by Init.  An absent fixedwing_metrics
\* slot is always read as its defaults, which the value sets contain; an
\* absent euler_angle slot is told from a slot holding the defaults only by
\* _continue_current_heading, where its absence is decided.

\* altitude = -position.down_m if position_velocity_ned else 0.0
AltitudeReads ==
    IF "position_velocity_ned" \in present THEN AltVals ELSE {0}

\* ------------------------------------------------------- abort_transition
\* abort_transition: transition_to_multicopter (if configured), offboard
\* stop, return_to_launch; each in its own try / async with, errors logged.
AbortFirst ==
    IF config.failsafe_multicopter_transition THEN "ab_mc" ELSE "ab_stop"

\* Coroutine t calls abort_transition; r is what its caller does afterwards
\* ("raise": re-raise to the enclosing handler, "return_failure").
AbortEntry(t, r, held) ==
    /\ ret' = [ret EXCEPT ![t] = r]
    /\ IF held THEN ReleaseArrive(t, AbortFirst) ELSE Arrive(t, AbortFirst)

\* The "except asyncio.CancelledError" clause left out.
CaughtExceptionOnly(kind) == kind = "Exception"
\* The "except Exception" clause left out.
CaughtCancelledOnly(kind) == kind = "CancelledError"
\* The except clauses of execute_transition: CancelledError and Exception.
CaughtByExecute(kind) == kind \in {"CancelledError", "Exception"}

\* An exception of the given kind reaches the try block of
\* execute_transition: a handler logs it, calls abort_transition and returns
\* "failure"; an exception no clause catches leaves execute_transition.
ExecuteHandler(kind, held) ==
    IF CaughtByExecute(kind)
    THEN /\ AbortEntry("exec", "return_failure", held)
         /\ result' = result
    ELSE /\ (IF held THEN ReleaseTo("exec", "done") ELSE Jump("exec", "done"))
         /\ result' = "raised"
         /\ ret' = ret

\* An error in a step ends the sequence at return_to_launch.
AbortNextSkips(site) == "ab_rtl"
\* The step that follows a step of abort_transition, whether that step's
\* command returned or raised (each step has its own try / except).
AbortNext(site) == IF site = "ab_mc" THEN "ab_stop" ELSE "ab_rtl"

abort_transition(t) ==
    \/ /\ Returns(t, "ab_mc")
       /\ ReleaseArrive(t, AbortNext("ab_mc"))
       /\ UNCHANGED << envv, ret, taskv, execv, evv, rampv, monv >>
       /\ NoCycle
    \/ /\ Returns(t, "ab_stop")
       /\ ReleaseArrive(t, AbortNext("ab_stop"))
       /\ UNCHANGED << envv, ret, taskv, execv, evv, rampv, monv >>
       /\ NoCycle
    \* abort_transition returns into execute_transition's own handler
    \/ /\ Returns(t, "ab_rtl")
       /\ t = "exec"
       /\ ret[t] = "return_failure"
       /\ ReleaseTo(t, "done")
       /\ result' = "failure"
       /\ UNCHANGED << envv, ret, taskv, attempt, rejected, evv, rampv, monv >>
       /\ NoCycle
    \* a phase handler re-raises; "except Exception" of execute_transition
    \* calls abort_transition again
    \/ /\ Returns(t, "ab_rtl")
       /\ t = "exec"
       /\ ret[t] = "raise"
       /\ ExecuteHandler("Exception", TRUE)
       /\ UNCHANGED << envv, taskv, attempt, rejected, evv, rampv, monv >>
       /\ NoCycle
    \* ramp_throttle_and_tilt's handler re-raises: the task ends by exception
    \/ /\ Returns(t, "ab_rtl")
       /\ t = "ramp"
       /\ ReleaseTo(t, "done")
       /\ taskres' = [taskres EXCEPT ![t] = "exception"]
       /\ UNCHANGED << envv, ret, must_cancel, execv, evv, rampv, monv >>
       /\ NoCycle
    \* monitor_and_switch / success_transition: return "failure"
    \/ /\ Returns(t, "ab_rtl")
       /\ t = "mon"
       /\ ret[t] = "return_failure"
       /\ ReleaseTo(t, "done")
       /\ taskres' = [taskres EXCEPT ![t] = "failure"]
       /\ UNCHANGED << envv, ret, must_cancel, execv, evv, rampv, monv >>
       /\ NoCycle
    \* start_offboard inside _continue_current_heading raises RuntimeError:
    \* handle_post_transition_action's handler calls _return_to_launch
    \/ /\ Returns(t, "ab_rtl")
       /\ t = "mon"
       /\ ret[t] = "raise"
       /\ ReleaseArrive(t, "pa_fallback")
       /\ UNCHANGED << envv, ret, taskv, execv, evv, rampv, monv >>
       /\ NoCycle

\* ------------------------------------------------------- arm_and_takeoff
arm_and_takeoff ==
    \/ /\ Returns("exec", "arm")
       /\ Held("exec", "set_takeoff_altitude")
       /\ UNCHANGED << envv, ret, taskv, execv, evv, rampv, monv >>
       /\ NoCycle
    \/ /\ Returns("exec", "set_takeoff_altitude")
       /\ Held("exec", "takeoff")
       /\ UNCHANGED << envv, ret, taskv, execv, evv, rampv, monv >>
       /\ NoCycle
    \/ /\ Returns("exec", "takeoff")
       /\ ReleaseTo("exec", "takeoff_sleep")
       /\ UNCHANGED << envv, ret, taskv, execv, evv, rampv, monv >>
       /\ NoCycle
    \* any of the three commands raises: abort_transition, then raise
    \/ /\ \E site \in {"arm", "set_takeoff_altitude", "takeoff"} :
             Returns("exec", site)
       /\ AbortEntry("exec", "raise", TRUE)
       /\ UNCHANGED << envv, taskv, execv, evv, rampv, monv >>
       /\ NoCycle

\* ----------------------------------------------------------- start_offboard
\* Called by execute_transition (Phase 2) and by _continue_current_heading.

\* The zero setpoint is published by the first attempt only.
AttemptSiteSetpointOnce(a) == IF a = 1 THEN "ob_setpoint" ELSE "ob_start"
\* The first command of attempt a: set_velocity_body(0, 0, 0, 0).
AttemptSite(a) == "ob_setpoint"

\* The loop runs one attempt more than retries.
AttemptsLeftOneMore(a) == a <= retries
\* for attempt in range(1, retries + 1): another attempt follows attempt a.
AttemptsLeft(a) == a < retries

start_offboard(t) ==
    \/ /\ Returns(t, "ob_setpoint")
       /\ Held(t, "ob_start")
       /\ UNCHANGED << envv, ret, taskv, execv, evv, rampv, monv >>
       /\ NoCycle
    \* OffboardError from either command: warn, sleep 2 s
    \/ /\ \E site \in {"ob_setpoint", "ob_start"} : Returns(t, site)
       /\ rejected' = (IF pc[t] = "ob_start" THEN rejected + 1 ELSE rejected)
       /\ ReleaseTo(t, "ob_sleep")
       /\ UNCHANGED << envv, ret, taskv, result, attempt, evv, rampv, monv >>
       /\ NoCycle
    \* next attempt of "for attempt in range(1, retries + 1)"
    \/ /\ Resumes(t, "ob_sleep")
       /\ AttemptsLeft(attempt)
       /\ attempt' = attempt + 1
       /\ Arrive(t, AttemptSite(attempt + 1))
       /\ UNCHANGED << envv, ret, taskv, result, rejected, evv, rampv, monv >>
       /\ NoCycle
    \* the loop is exhausted: abort_transition, then raise RuntimeError
    \/ /\ Resumes(t, "ob_sleep")
       /\ ~AttemptsLeft(attempt)
       /\ AbortEntry(t, "raise", FALSE)
       /\ UNCHANGED << envv, taskv, execv, evv, rampv, monv >>
       /\ NoCycle
    \* any other exception: break, abort_transition, raise RuntimeError
    \/ /\ \E site \in {"ob_setpoint", "ob_start"} : Returns(t, site)
       /\ AbortEntry(t, "raise", TRUE)
       /\ UNCHANGED << envv, taskv, execv, evv, rampv, monv >>
       /\ NoCycle

\* ------------------------------------------- initial / secondary climb phase
\* Where execute_transition goes with altitude a read at the top of the
\* climb loop of phase ph (the two loops follow each other without a
\* suspension when the first target is already met).
\* The initial climb publishes its setpoint once and goes on.
ClimbTargetOneShot(a, ph) ==
    IF ph = 1 /\ a < config.alt.initial_climb_height
              /\ pc["exec"] # "climb1_sleep" THEN "climb1"
    ELSE IF a < config.alt.transition_base_altitude THEN "climb2"
    ELSE "fork"
\* The secondary climb loop left out.
ClimbTargetNoSecondary(a, ph) ==
    IF ph = 1 /\ a < config.alt.initial_climb_height THEN "climb1"
    ELSE "fork"
ClimbTarget(a, ph) ==
    IF ph = 1 /\ a < config.alt.initial_climb_height THEN "climb1"
    ELSE IF a < config.alt.transition_base_altitude THEN "climb2"
    ELSE "fork"

\* Phase 5 entry: create_task(ramp), create_task(monitor), asyncio.wait.
Fork(held) ==
    /\ pc' = [pc EXCEPT !["exec"] = "wait", !["ramp"] = "ramp_start",
                        !["mon"] = "mon_start"]
    /\ holder' = (IF held THEN "none" ELSE holder)
    /\ inflight' = [inflight EXCEPT !["exec"] = "none"]
    /\ lockq' = lockq

EnterClimb(a, ph, held) ==
    LET site == ClimbTarget(a, ph)
    IN  IF site = "fork" THEN Fork(held)
        ELSE IF held THEN ReleaseArrive("exec", site)
        ELSE Arrive("exec", site)

initial_climb_phase ==
    \* the setpoint returned: log, sleep cycle_interval
    \/ /\ Returns("exec", "climb1")
       /\ ReleaseTo("exec", "climb1_sleep")
       /\ UNCHANGED << envv, ret, taskv, execv, evv, rampv, monv >>
       /\ NoCycle
    \/ /\ Resumes("exec", "climb1_sleep")
       /\ \E a \in AltitudeReads : EnterClimb(a, 1, FALSE) /\ ClimbRead(a)
       /\ UNCHANGED << envv, ret, taskv, execv, evv, rampv, monv >>
    \* the setpoint raised: abort_transition, then raise
    \/ /\ Returns("exec", "climb1")
       /\ AbortEntry("exec", "raise", TRUE)
       /\ UNCHANGED << envv, taskv, execv, evv, rampv, monv >>
       /\ NoCycle

secondary_climb_phase ==
    \/ /\ Returns("exec", "climb2")
       /\ ReleaseTo("exec", "climb2_sleep")
       /\ UNCHANGED << envv, ret, taskv, execv, evv, rampv, monv >>
       /\ NoCycle
    \/ /\ Resumes("exec", "climb2_sleep")
       /\ \E a \in AltitudeReads : EnterClimb(a, 2, FALSE) /\ ClimbRead(a)
       /\ UNCHANGED << envv, ret, taskv, execv, evv, rampv, monv >>
    \/ /\ Returns("exec", "climb2")
       /\ AbortEntry("exec", "raise", TRUE)
       /\ UNCHANGED << envv, taskv, execv, evv, rampv, monv >>
       /\ NoCycle

\* ------------------------------------------------------ execute_transition
\* The safety-lock test left out.
SafetyLockIgnored == FALSE
\* if self.config.get("safety_lock", True)
SafetyLocked == config.safety_lock

execute_transition ==
    \* safety_lock: "return" with no value
    \/ /\ Resumes("exec", "start")
       /\ SafetyLocked
       /\ Jump("exec", "done")
       /\ result' = "None"
       /\ UNCHANGED << envv, ret, taskv, attempt, rejected, evv, rampv, monv >>
       /\ NoCycle
    \* Phase 1
    \/ /\ Resumes("exec", "start")
       /\ ~SafetyLocked
       /\ Arrive("exec", "arm")
       /\ UNCHANGED << envv, ret, taskv, execv, evv, rampv, monv >>
       /\ NoCycle
    \* Phase 2: start_offboard(retries=3)
    \/ /\ Resumes("exec", "takeoff_sleep")
       /\ attempt' = 1
       /\ rejected' = 0
       /\ Arrive("exec", AttemptSite(1))
       /\ UNCHANGED << envv, ret, taskv, result, evv, rampv, monv >>
       /\ NoCycle
    \* offboard is active: Phases 3 and 4, up to the first setpoint or Phase 5
    \/ /\ Returns("exec", "ob_start")
       /\ attempt' = 0
       /\ rejected' = 0
       /\ \E a \in AltitudeReads : EnterClimb(a, 1, TRUE) /\ ClimbRead(a)
       /\ UNCHANGED << envv, ret, taskv, result, evv, rampv, monv >>

\* -------------------------------------------------- ramp_throttle_and_tilt
total_steps == IF throttle_steps > tilt_steps THEN throttle_steps ELSE tilt_steps
max_tilt == -1 * config.max_tilt_pitch
\* tilt_step = max_tilt / tilt_steps is a float quotient, and adding it
\* tilt_steps times does not in general give max_tilt back (the defaults
\* 80 / 150 end at -79.99999999999987): the quotient is modelled by the
\* truncating division, which falls short in the same way.
tilt_step == -1 * (config.max_tilt_pitch \div tilt_steps)

Min(a, b) == IF a < b THEN a ELSE b
Max(a, b) == IF a > b THEN a ELSE b
Abs(a) == IF a < 0 THEN -a ELSE a

\* int(a / b): the quotient truncated toward zero
TruncDiv(a, b) ==
    IF (a < 0) = (b < 0) THEN Abs(a) \div Abs(b) ELSE -(Abs(a) \div Abs(b))

\* The clamp taken with min() instead of max().
NextTiltMin(k, ti) ==
    IF k < tilt_steps THEN Min(ti + tilt_step, max_tilt) ELSE ti
\* if step < tilt_steps: tilt += tilt_step; tilt = max(tilt, max_tilt)
NextTilt(k, ti) ==
    IF k < tilt_steps THEN Max(ti + tilt_step, max_tilt) ELSE ti

\* over-tilt loop: tilt += tilt_step; tilt = max(tilt, max_allowed_tilt)
OverTilt(ti) == Max(ti + tilt_step, -1 * max_allowed_tilt)

\* over_tilt_steps = int(additional_tilt / tilt_step)
OverTiltSteps(ti) ==
    IF tilt_step # 0
    THEN TruncDiv((-1 * max_allowed_tilt) - ti, tilt_step) ELSE 0

\* "Throttle and tilt ramping complete.": the coroutine returns None.
RampReturns(ti, th) ==
    /\ Jump("ramp", "done")
    /\ taskres' = [taskres EXCEPT !["ramp"] = "None"]
    /\ tilt' = ti
    /\ throttle' = th
    /\ UNCHANGED << step, over, over_tilt_steps >>

\* Top of "for step in range(over_tilt_steps)" with step = k.
OverTop(k, n, ti, th) ==
    IF k < n /\ ~abort_event /\ ~transition_event
    THEN /\ over' = TRUE
         /\ step' = k
         /\ over_tilt_steps' = n
         /\ tilt' = OverTilt(ti)
         /\ throttle' = th
         /\ Arrive("ramp", "over_att")
         /\ taskres' = taskres
    ELSE RampReturns(ti, th)

\* After the nominal loop: "if over_tilt_enabled and tilt > max_tilt".
OverEntry(ti, th) ==
    IF config.over_tilt_enabled /\ ti > max_tilt
    THEN OverTop(0, OverTiltSteps(ti), ti, th)
    ELSE RampReturns(ti, th)

\* current_throttle: fixedwing_metrics.throttle_percentage, or 0.7 when the
\* slot is absent.  A reading above max_throttle is explored on the default
\* flight parameters under the usual options.
ThrottleReads ==
    IF DefaultFlight(config) /\ UsualOptions(config)
    THEN ThrottleVals ELSE {default_throttle}

\* if step < throttle_steps: throttle += throttle_step, clamped
NextThrottle(k, th, ts) ==
    IF k < throttle_steps THEN Min(th + ts, max_throttle) ELSE th

\* Top of "for step in range(total_steps)" with step = k.
RampTop(k, ti, th, ts) ==
    IF k < total_steps /\ ~abort_event /\ ~transition_event
    THEN /\ step' = k
         /\ throttle' = NextThrottle(k, th, ts)
         /\ tilt' = NextTilt(k, ti)
         /\ Arrive("ramp", "ramp_att")
         /\ UNCHANGED << taskres, over, over_tilt_steps >>
    ELSE OverEntry(ti, th)

\* The loop clock counts from the entry of execute_transition; the ramping
\* task takes its first step RampDelay later.
\* The start time taken at the entry of execute_transition instead.
StartTimeAtEntry == RampDelay - RampDelay
\* self.fwd_transition_start_time = asyncio.get_event_loop().time()
StartTime == RampDelay

ramp_throttle_and_tilt ==
    \* task start: start time, ramping_started_event, first setpoint
    \/ /\ Resumes("ramp", "ramp_start")
       /\ fwd_transition_start_time' = StartTime
       /\ ramping_started_event' = TRUE
       /\ \E cur \in ThrottleReads :
            /\ throttle_step' = (max_throttle - cur) \div throttle_steps
            /\ RampTop(0, 0, cur, throttle_step')
       /\ UNCHANGED << envv, ret, must_cancel, execv, abort_event,
                       transition_event, monv >>
       /\ NoCycle
    \* a nominal setpoint returned: log, sleep cycle_interval
    \/ /\ Returns("ramp", "ramp_att")
       /\ ReleaseTo("ramp", "ramp_sleep")
       /\ UNCHANGED << envv, ret, taskv, execv, evv, rampv, monv >>
       /\ NoCycle
    \/ /\ Resumes("ramp", "ramp_sleep")
       /\ RampTop(step + 1, tilt, throttle, throttle_step)
       /\ UNCHANGED << envv, ret, must_cancel, execv, evv, throttle_step,
                       fwd_transition_start_time, monv >>
       /\ NoCycle
    \* an over-tilt setpoint returned: log, sleep cycle_interval
    \/ /\ Returns("ramp", "over_att")
       /\ ReleaseTo("ramp", "over_sleep")
       /\ UNCHANGED << envv, ret, taskv, execv, evv, rampv, monv >>
       /\ NoCycle
    \/ /\ Resumes("ramp", "over_sleep")
       /\ OverTop(step + 1, over_tilt_steps, tilt, throttle)
       /\ UNCHANGED << envv, ret, must_cancel, execv, evv, throttle_step,
                       fwd_transition_start_time, monv >>
       /\ NoCycle
    \* a setpoint raised: abort_transition, then raise
    \/ /\ \E site \in {"ramp_att", "over_att"} : Returns("ramp", site)
       /\ AbortEntry("ramp", "raise", TRUE)
       /\ UNCHANGED << envv, taskv, execv, evv, rampv, monv >>
       /\ NoCycle

\* The lock stays with a coroutine that CancelledError takes out of its
\* "async with" block.
HolderAfterCancelKept(t) == holder
\* The owner of command_lock once CancelledError has left coroutine t:
\* __aexit__ of "async with" releases a lock that t holds.
HolderAfterCancel(t) ==
    IF holder # t THEN holder
    ELSE IF lockq = << >> THEN "none" ELSE Head(lockq)

\* A cancelled task is resumed with CancelledError at its suspension point:
\* "async with" releases the lock (or the queued acquire is withdrawn), the
\* handler of ramp_throttle_and_tilt re-raises and the task ends cancelled;
\* the handler of monitor_and_switch returns "failure".
Cancelled(t) ==
    /\ must_cancel[t]
    /\ pc[t] # "done"
    /\ pc' = [pc EXCEPT ![t] = "done"]
    /\ inflight' = [inflight EXCEPT ![t] = "none"]
    /\ holder' = HolderAfterCancel(t)
    /\ lockq' = (IF holder # t THEN SelectSeq(lockq, LAMBDA u : u # t)
                 ELSE IF lockq = << >> THEN lockq ELSE Tail(lockq))
    /\ taskres' = [taskres EXCEPT
                     ![t] = IF t = "mon" THEN "failure" ELSE "cancelled"]
    /\ UNCHANGED << envv, ret, must_cancel, execv, evv, rampv, monv >>
    /\ NoCycle

\* ------------------------------------------------------ monitor_and_switch
\* Verdict with the pitch check moved ahead of the roll check.
VerdictPitchFirst(s) ==
    IF Abs(s.pitch) > max_pitch_failsafe THEN "pitch"
    ELSE IF Abs(s.roll) > max_roll_failsafe THEN "roll"
    ELSE IF s.altitude > max_altitude_failsafe THEN "max_altitude"
    ELSE IF s.altitude_loss > altitude_loss_limit THEN "altitude_loss"
    ELSE IF s.altitude < config.alt.altitude_failsafe_threshold
         THEN "min_altitude"
    ELSE IF s.climb_rate < climb_rate_failsafe_threshold THEN "climb_rate"
    ELSE IF s.airspeed >= transition_air_speed THEN "success"
    ELSE IF s.elapsed_time > transition_timeout THEN "timeout"
    ELSE "continue"

\* Verdict with the success check moved ahead of the failsafe checks.
VerdictSuccessFirst(s) ==
    IF s.airspeed >= transition_air_speed THEN "success"
    ELSE IF Abs(s.roll) > max_roll_failsafe THEN "roll"
    ELSE IF s.altitude > max_altitude_failsafe THEN "max_altitude"
    ELSE IF Abs(s.pitch) > max_pitch_failsafe THEN "pitch"
    ELSE IF s.altitude_loss > altitude_loss_limit THEN "altitude_loss"
    ELSE IF s.altitude < config.alt.altitude_failsafe_threshold
         THEN "min_altitude"
    ELSE IF s.climb_rate < climb_rate_failsafe_threshold THEN "climb_rate"
    ELSE IF s.elapsed_time > transition_timeout THEN "timeout"
    ELSE "continue"

\* Verdict with the timeout check left out.
VerdictNoTimeout(s) ==
    IF Abs(s.roll) > max_roll_failsafe THEN "roll"
    ELSE IF s.altitude > max_altitude_failsafe THEN "max_altitude"
    ELSE IF Abs(s.pitch) > max_pitch_failsafe THEN "pitch"
    ELSE IF s.altitude_loss > altitude_loss_limit THEN "altitude_loss"
    ELSE IF s.altitude < config.alt.altitude_failsafe_threshold
         THEN "min_altitude"
    ELSE IF s.climb_rate < climb_rate_failsafe_threshold THEN "climb_rate"
    ELSE IF s.airspeed >= transition_air_speed THEN "success"
    ELSE "continue"

\* Verdict with the timeout check moved ahead of the success check.
VerdictTimeoutFirst(s) ==
    IF Abs(s.roll) > max_roll_failsafe THEN "roll"
    ELSE IF s.altitude > max_altitude_failsafe THEN "max_altitude"
    ELSE IF Abs(s.pitch) > max_pitch_failsafe THEN "pitch"
    ELSE IF s.altitude_loss > altitude_loss_limit THEN "altitude_loss"
    ELSE IF s.altitude < config.alt.altitude_failsafe_threshold
         THEN "min_altitude"
    ELSE IF s.climb_rate < climb_rate_failsafe_threshold THEN "climb_rate"
    ELSE IF s.elapsed_time > transition_timeout THEN "timeout"
    ELSE IF s.airspeed >= transition_air_speed THEN "success"
    ELSE "continue"

\* Verdict with the timeout tripping at twice transition_timeout.
VerdictTimeoutLate(s) ==
    IF Abs(s.roll) > max_roll_failsafe THEN "roll"
    ELSE IF s.altitude > max_altitude_failsafe THEN "max_altitude"
    ELSE IF Abs(s.pitch) > max_pitch_failsafe THEN "pitch"
    ELSE IF s.altitude_loss > altitude_loss_limit THEN "altitude_loss"
    ELSE IF s.altitude < config.alt.altitude_failsafe_threshold
         THEN "min_altitude"
    ELSE IF s.climb_rate < climb_rate_failsafe_threshold THEN "climb_rate"
    ELSE IF s.airspeed >= transition_air_speed THEN "success"
    ELSE IF s.elapsed_time > transition_timeout + transition_timeout
         THEN "timeout"
    ELSE "continue"

\* Verdict with the altitude threshold compared inclusively.
VerdictThresholdInclusive(s) ==
    IF Abs(s.roll) > max_roll_failsafe THEN "roll"
    ELSE IF s.altitude > max_altitude_failsafe THEN "max_altitude"
    ELSE IF Abs(s.pitch) > max_pitch_failsafe THEN "pitch"
    ELSE IF s.altitude_loss > altitude_loss_limit THEN "altitude_loss"
    ELSE IF s.altitude <= config.alt.altitude_failsafe_threshold
         THEN "min_altitude"
    ELSE IF s.climb_rate < climb_rate_failsafe_threshold THEN "climb_rate"
    ELSE IF s.airspeed >= transition_air_speed THEN "success"
    ELSE IF s.elapsed_time > transition_timeout THEN "timeout"
    ELSE "continue"

\* The checks of one cycle in source order; the first that holds decides.
Verdict(s) ==
    IF Abs(s.roll) > max_roll_failsafe THEN "roll"
    ELSE IF s.altitude > max_altitude_failsafe THEN "max_altitude"
    ELSE IF Abs(s.pitch) > max_pitch_failsafe THEN "pitch"
    ELSE IF s.altitude_loss > altitude_loss_limit THEN "altitude_loss"
    ELSE IF s.altitude < config.alt.altitude_failsafe_threshold
         THEN "min_altitude"
    ELSE IF s.climb_rate < climb_rate_failsafe_threshold THEN "climb_rate"
    ELSE IF s.airspeed >= transition_air_speed THEN "success"
    ELSE IF s.elapsed_time > transition_timeout THEN "timeout"
    ELSE "continue"

\* if max_altitude is None or altitude > max_altitude: max_altitude = altitude
\* The peak tested for truth ("if not max_altitude or ...") instead of None.
TrackPeakFalsy(peak, a) ==
    IF peak = None \/ peak = 0 \/ a > peak THEN a ELSE peak
TrackPeak(peak, a) == IF peak = None \/ a > peak THEN a ELSE peak

\* altitude_loss = (max_altitude - altitude) if max_altitude else 0.0
AltitudeLoss(peak, a) == IF peak # 0 THEN peak - a ELSE 0

\* elapsed_time = loop.time() - self.fwd_transition_start_time, in a cycle
\* that runs x after the ramping task took its first step.
ElapsedTime(x) == (RampDelay + x) - fwd_transition_start_time

\* The values parsed in one cycle from the snapshot and the clock, x after
\* the ramping task took its first step.
Parse(a, p, r, v, c, x) ==
    [ live |-> TRUE, altitude |-> a, pitch |-> p, roll |-> r, airspeed |-> v,
      climb_rate |-> c, elapsed_time |-> ElapsedTime(x), since_ramping |-> x,
      max_altitude |-> TrackPeak(max_altitude, a),
      altitude_loss |-> AltitudeLoss(TrackPeak(max_altitude, a), a),
      verdict |-> "none" ]

\* MonitorCycle without the return after success: the event is set and the
\* loop goes on.
MonitorCycleNoReturn(s) ==
    LET v == Verdict(s) IN
    /\ snap' = [ s EXCEPT !.verdict = v ]
    /\ max_altitude' = s.max_altitude
    /\ elapsed_time' = s.elapsed_time
    /\ IF v \in {"continue", "success"}
       THEN /\ Jump("mon", "mon_sleep")
            /\ transition_event' = (transition_event \/ v = "success")
            /\ UNCHANGED << abort_event, ret >>
       ELSE /\ abort_event' = TRUE
            /\ AbortEntry("mon", "return_failure", FALSE)
            /\ UNCHANGED << transition_event >>

\* One pass of the "while True" body, from the resumption of the task to its
\* next suspension; verdict is the branch taken (the violation logged).  The
\* locals of the loop are dead once the loop is left.
MonitorCycle(s) ==
    LET v == Verdict(s) IN
    /\ snap' = [ s EXCEPT !.verdict = v ]
    /\ max_altitude' = (IF v = "continue" THEN s.max_altitude ELSE None)
    /\ elapsed_time' = (IF v = "continue" THEN s.elapsed_time ELSE 0)
    /\ IF v = "continue"
       THEN /\ Jump("mon", "mon_sleep")
            /\ UNCHANGED << abort_event, transition_event, ret >>
       ELSE IF v = "success"
       THEN /\ transition_event' = TRUE
            /\ Arrive("mon", "st_accel")
            /\ UNCHANGED << abort_event, ret >>
       ELSE /\ abort_event' = TRUE
            /\ AbortEntry("mon", "return_failure", FALSE)
            /\ UNCHANGED << transition_event >>

\* The wait for ramping_started_event left out.
RampingStartedNoWait == TRUE
\* if not ramping_started_event.is_set(): await ramping_started_event.wait()
RampingStartedWait == ramping_started_event

monitor_and_switch ==
    /\ \E lbl \in {"mon_start", "mon_sleep"} : Resumes("mon", lbl)
    /\ RampingStartedWait
    /\ \E a \in AltitudeReads, p \in PitchVals, r \in RollVals,
          v \in AirspeedVals, c \in ClimbVals,
          e \in { x \in ElapsedVals : x >= elapsed_time } :
            MonitorCycle(Parse(a, p, r, v, c, e))
    /\ UNCHANGED << envv, taskv, execv, ramping_started_event, rampv,
                    fw_completed >>

\* ------------------------------------------------------ success_transition
\* Every name that is not return_to_launch starts with hold.
PostActionSiteHoldElse(a) ==
    CASE a = "continue_current_heading" -> "ob_setpoint"
      [] a = "return_to_launch" -> "pa_rtl"
      [] a = "start_mission_from_waypoint" -> "ms_download"
      [] OTHER -> "pa_hold"
\* The first command site of post-transition action a (line 638 on).
PostActionSite(a) ==
    CASE a = "continue_current_heading" -> "ob_setpoint"
      [] a = "hold" -> "pa_hold"
      [] a = "start_mission_from_waypoint" -> "ms_download"
      [] OTHER -> "pa_rtl"

\* The monitoring task ends: monitor_and_switch returns status.
MonitorReturns(status) ==
    /\ ReleaseTo("mon", "done")
    /\ taskres' = [taskres EXCEPT !["mon"] = status]

success_transition ==
    \* the acceleration setpoint returned: sleep acceleration_duration
    \/ /\ Returns("mon", "st_accel")
       /\ ReleaseTo("mon", "st_sleep")
       /\ NoCycle
       /\ UNCHANGED << envv, ret, taskv, execv, evv, rampv, monv >>
    \* it raised, outside any try of success_transition: the handler of
    \* monitor_and_switch aborts and returns "failure"
    \/ /\ Returns("mon", "st_accel")
       /\ AbortEntry("mon", "return_failure", TRUE)
       /\ NoCycle
       /\ UNCHANGED << envv, taskv, execv, evv, rampv, monv >>
    \/ /\ Resumes("mon", "st_sleep")
       /\ Arrive("mon", "st_stop")
       /\ UNCHANGED << envv, ret, taskv, execv, evv, rampv, monv >>
       /\ NoCycle
    \* offboard stop returned or raised (logged): go on to the transition
    \/ /\ Returns("mon", "st_stop")
       /\ ReleaseArrive("mon", "st_fw")
       /\ UNCHANGED << envv, ret, taskv, execv, evv, rampv, monv >>
       /\ NoCycle
    \* transition_to_fixedwing returned: handle_post_transition_action
    \* reads config["post_transition_action"], which no step of a run writes
    \/ /\ Returns("mon", "st_fw")
       /\ fw_completed' = TRUE
       /\ \E a \in PostActions :
            /\ post_action' = a
            /\ attempt' = (IF a = "continue_current_heading" THEN 1
                           ELSE attempt)
            /\ rejected' = (IF a = "continue_current_heading" THEN 0
                            ELSE rejected)
            /\ ReleaseArrive("mon", PostActionSite(a))
       /\ UNCHANGED << config, present, ret, taskv, result, evv, rampv,
                       max_altitude, elapsed_time >>
       /\ NoCycle
    \* transition_to_fixedwing raised: abort_transition, return "failure"
    \/ /\ Returns("mon", "st_fw")
       /\ AbortEntry("mon", "return_failure", TRUE)
       /\ UNCHANGED << envv, taskv, execv, evv, rampv, monv >>
       /\ NoCycle

\* ------------------------------------------- handle_post_transition_action
handle_post_transition_action ==
    \* _hold_mode / _return_to_launch returned: "success"
    \/ /\ \E site \in {"pa_hold", "pa_rtl"} : Returns("mon", site)
       /\ MonitorReturns("success")
       /\ UNCHANGED << envv, ret, must_cancel, execv, evv, rampv, monv >>
       /\ NoCycle
    \* the action raised: the handler calls _return_to_launch
    \/ /\ \E site \in {"pa_hold", "pa_rtl"} : Returns("mon", site)
       /\ ReleaseArrive("mon", "pa_fallback")
       /\ UNCHANGED << envv, ret, taskv, execv, evv, rampv, monv >>
       /\ NoCycle
    \* the fallback return_to_launch returned: "success"
    \/ /\ Returns("mon", "pa_fallback")
       /\ MonitorReturns("success")
       /\ UNCHANGED << envv, ret, must_cancel, execv, evv, rampv, monv >>
       /\ NoCycle
    \* the fallback raised inside the handler: the handler of
    \* success_transition aborts and returns "failure"
    \/ /\ Returns("mon", "pa_fallback")
       /\ AbortEntry("mon", "return_failure", TRUE)
       /\ UNCHANGED << envv, taskv, execv, evv, rampv, monv >>
       /\ NoCycle

\* ------------------------------------------------ _continue_current_heading
continue_current_heading ==
    \* start_offboard returned; the euler_angle slot was never written:
    \* euler_angle.yaw_deg raises AttributeError, the handler of
    \* handle_post_transition_action calls _return_to_launch
    \/ /\ Returns("mon", "ob_start")
       /\ attempt' = 0
       /\ rejected' = 0
       /\ ReleaseArrive("mon", "pa_fallback")
       /\ UNCHANGED << envv, ret, taskv, result, evv, rampv, monv >>
       /\ NoCycle
    \* no position_velocity_ned: set_velocity_body outside "async with"
    \/ /\ Returns("mon", "ob_start")
       /\ attempt' = 0
       /\ rejected' = 0
       /\ "position_velocity_ned" \notin present
       /\ holder' = (IF lockq = << >> THEN "none" ELSE Head(lockq))
       /\ lockq' = (IF lockq = << >> THEN lockq ELSE Tail(lockq))
       /\ inflight' = [inflight EXCEPT !["mon"] = CmdOf("cch_body")]
       /\ pc' = [pc EXCEPT !["mon"] = "cch_body"]
       /\ UNCHANGED << envv, ret, taskv, result, evv, rampv, monv >>
       /\ NoCycle
    \/ /\ Returns("mon", "ob_start")
       /\ attempt' = 0
       /\ rejected' = 0
       /\ "position_velocity_ned" \in present
       /\ ReleaseArrive("mon", "cch_ned")
       /\ UNCHANGED << envv, ret, taskv, result, evv, rampv, monv >>
       /\ NoCycle
    \* the unlocked setpoint returned or raised and the lock is free: the
    \* "async with" is entered, vel_n is unbound (UnboundLocalError), the
    \* handler calls _return_to_launch; or it raised and the lock is taken
    \/ /\ Returns("mon", "cch_body")
       /\ Arrive("mon", "pa_fallback")
       /\ UNCHANGED << envv, ret, taskv, execv, evv, rampv, monv >>
       /\ NoCycle
    \* the unlocked setpoint returned and the lock is taken: wait for it
    \/ /\ Returns("mon", "cch_body")
       /\ holder # "none"
       /\ lockq' = Append(lockq, "mon")
       /\ inflight' = [inflight EXCEPT !["mon"] = "none"]
       /\ pc' = [pc EXCEPT !["mon"] = "cch_unbound"]
       /\ holder' = holder
       /\ UNCHANGED << envv, ret, taskv, execv, evv, rampv, monv >>
       /\ NoCycle
    \* the lock is handed over: UnboundLocalError inside "async with"
    \/ /\ Resumes("mon", "cch_unbound")
       /\ holder = "mon"
       /\ ReleaseArrive("mon", "pa_fallback")
       /\ UNCHANGED << envv, ret, taskv, execv, evv, rampv, monv >>
       /\ NoCycle
    \* the NED setpoint returned: "success"
    \/ /\ Returns("mon", "cch_ned")
       /\ MonitorReturns("success")
       /\ UNCHANGED << envv, ret, must_cancel, execv, evv, rampv, monv >>
       /\ NoCycle
    \/ /\ Returns("mon", "cch_ned")
       /\ ReleaseArrive("mon", "pa_fallback")
       /\ UNCHANGED << envv, ret, taskv, execv, evv, rampv, monv >>
       /\ NoCycle

\* --------------------------------------------- _start_mission_from_waypoint
start_mission_from_waypoint ==
    \* download_mission returned: log the items, go on
    \/ /\ Returns("mon", "ms_download")
       /\ ReleaseArrive("mon", "ms_set")
       /\ UNCHANGED << envv, ret, taskv, execv, evv, rampv, monv >>
       /\ NoCycle
    \* download_mission raised (logged): mission_plan is unbound at the index
    \* check, UnboundLocalError reaches handle_post_transition_action
    \/ /\ Returns("mon", "ms_download")
       /\ ReleaseArrive("mon", "pa_fallback")
       /\ UNCHANGED << envv, ret, taskv, execv, evv, rampv, monv >>
       /\ NoCycle
    \* set_current_mission_item returned or raised (logged)
    \/ /\ Returns("mon", "ms_set")
       /\ ReleaseArrive("mon", "ms_start")
       /\ UNCHANGED << envv, ret, taskv, execv, evv, rampv, monv >>
       /\ NoCycle
    \* start_mission returned or raised (logged): "success"
    \/ /\ Returns("mon", "ms_start")
       /\ MonitorReturns("success")
       /\ UNCHANGED << envv, ret, must_cancel, execv, evv, rampv, monv >>
       /\ NoCycle

\* --------------------------------------- execute_transition, Phase 5 join
Phase5Join ==
    \* the monitoring task is in `done` and its result is reached in the
    \* "for task in done" loop: cancel what is pending, return its result
    \/ /\ Resumes("exec", "wait")
       /\ taskres["mon"] \in {"success", "failure"}
       /\ Jump("exec", "done")
       /\ result' = taskres["mon"]
       /\ must_cancel' =
            [must_cancel EXCEPT !["ramp"] = (taskres["ramp"] = "pending")]
       /\ UNCHANGED << envv, ret, taskres, attempt, rejected, evv, rampv, monv >>
       /\ NoCycle
    \* only the ramping task is done, with result None: the loop falls
    \* through to "await asyncio.gather(monitoring_task, ...)"
    \/ /\ Resumes("exec", "wait")
       /\ taskres["ramp"] = "None"
       /\ taskres["mon"] = "pending"
       /\ Jump("exec", "gather")
       /\ UNCHANGED << envv, ret, taskv, execv, evv, rampv, monv >>
       /\ NoCycle
    \* task.result() of the ramping task raises its exception:
    \* "except Exception" calls abort_transition and returns "failure"
    \/ /\ Resumes("exec", "wait")
       /\ taskres["ramp"] = "exception"
       /\ ExecuteHandler("Exception", FALSE)
       /\ UNCHANGED << envv, taskv, attempt, rejected, evv, rampv, monv >>
       /\ NoCycle
    \* gather returned: return "success"
    \/ /\ Resumes("exec", "gather")
       /\ taskres["mon"] # "pending"
       /\ Jump("exec", "done")
       /\ result' = "success"
       /\ UNCHANGED << envv, ret, taskv, attempt, rejected, evv, rampv, monv >>
       /\ NoCycle

\* ------------------------------------------------------------ specification
Init ==
    /\ config \in Configs
    /\ post_action = "unread"
    /\ present \in SUBSET Slots
    /\ pc = [t \in Tasks |-> IF t = "exec" THEN "start" ELSE "idle"]
    /\ ret = [t \in Tasks |-> "none"]
    /\ taskres = [t \in {"ramp", "mon"} |-> "pending"]
    /\ result = "pending"
    /\ holder = "none"
    /\ lockq = << >>
    /\ inflight = [t \in Tasks |-> "none"]
    /\ attempt = 0
    /\ rejected = 0
    /\ abort_event = FALSE
    /\ transition_event = FALSE
    /\ ramping_started_event = FALSE
    /\ step = 0
    /\ tilt = 0
    /\ throttle = 0
    /\ throttle_step = 0
    /\ fwd_transition_start_time = None
    /\ over = FALSE
    /\ over_tilt_steps = 0
    /\ snap = NoSnap
    /\ max_altitude = None
    /\ elapsed_time = 0
    /\ fw_completed = FALSE
    /\ must_cancel = [t \in Tasks |-> FALSE]
    /\ cancelled_ext = FALSE
    /\ stepped = {}
    /\ telemetry_data = present
    /\ subscriptions = {}
    /\ sub = [s \in Streams |-> "none"]
    /\ sub_cancel = [s \in Streams |-> FALSE]
    /\ orphans = {}
    /\ stop_pc = "idle"
    /\ stops = 0
    /\ stop_raised = FALSE
    /\ exit_code = None

\* The event loop runs its ready callbacks in FIFO order.  When a task that
\* execute_transition waits for (asyncio.wait, asyncio.gather) completes,
\* the wake-up of execute_transition is queued at once: ahead of it are only
\* wake-ups queued earlier, at most one per other task, and everything that
\* arrives later (a command result, a timer) runs after it.
ExecuteReady ==
    \/ pc["exec"] = "wait" /\ \E t \in {"ramp", "mon"} : taskres[t] # "pending"
    \/ pc["exec"] = "gather" /\ taskres["mon"] # "pending"

\* The loop runs a step of coroutine t (no step of the program cancels
\* execute_transition); the telemetry cache is taken as it stands.
Runs(t) ==
    /\ cancelled_ext' = cancelled_ext
    /\ exit_code' = exit_code
    /\ UNCHANGED telv
    /\ IF t = "exec" \/ ~ExecuteReady
       THEN stepped' = {}
       ELSE /\ t \notin stepped
            /\ stepped' = stepped \cup {t}

Next ==
    \/ execute_transition /\ Runs("exec")
    \/ arm_and_takeoff /\ Runs("exec")
    \/ \E t \in {"exec", "mon"} : start_offboard(t) /\ Runs(t)
    \/ initial_climb_phase /\ Runs("exec")
    \/ secondary_climb_phase /\ Runs("exec")
    \/ Phase5Join /\ Runs("exec")
    \/ ramp_throttle_and_tilt /\ Runs("ramp")
    \/ Cancelled("ramp") /\ Runs("ramp")
    \/ monitor_and_switch /\ Runs("mon")
    \/ success_transition /\ Runs("mon")
    \/ handle_post_transition_action /\ Runs("mon")
    \/ continue_current_heading /\ Runs("mon")
    \/ start_mission_from_waypoint /\ Runs("mon")
    \/ \E t \in Tasks : abort_transition(t) /\ Runs(t)
    \/ \E t \in Tasks : LockGranted(t) /\ Runs(t)

Spec == Init /\ [][Next]_vars

\* ----------------------------------------------------- external cancellation
\* The caller cancels the task running execute_transition (main_control:
\* transition_task.cancel() on KeyboardInterrupt) while it is suspended in
\* one of Phases 1-5: not before its first step, not once it has returned,
\* and not while it is already inside its own except clause.
\* CancelledError is thrown at the suspension point: a held lock is released
\* by "async with", a queued acquire is withdrawn, a cancelled gather
\* cancels the monitoring task; asyncio.wait leaves both tasks running.
\* "except asyncio.CancelledError" then calls abort_transition.
CancelExecute ==
    /\ ~cancelled_ext
    /\ pc["exec"] \notin {"start", "done"}
    /\ ret["exec"] # "return_failure"
    /\ cancelled_ext' = TRUE
    /\ stepped' = {}
    /\ must_cancel' =
         [must_cancel EXCEPT
            !["mon"] = @ \/ (pc["exec"] = "gather" /\ pc["mon"] # "done")]
    /\ IF CaughtByExecute("CancelledError")
       THEN LET q == SelectSeq(lockq, LAMBDA u : u # "exec")
                site == AbortFirst
                free == holder = "none" \/ (holder = "exec" /\ q = << >>)
            IN  /\ holder' = (IF free THEN "exec"
                              ELSE IF holder = "exec" THEN Head(q)
                              ELSE holder)
                /\ lockq' = (IF free THEN q
                             ELSE IF holder = "exec"
                                  THEN Append(Tail(q), "exec")
                             ELSE Append(q, "exec"))
                /\ inflight' = [inflight EXCEPT
                                  !["exec"] = IF free THEN CmdOf(site)
                                              ELSE "none"]
                /\ pc' = [pc EXCEPT !["exec"] = site]
                /\ ret' = [ret EXCEPT !["exec"] = "return_failure"]
                /\ result' = result
       ELSE /\ holder' = HolderAfterCancel("exec")
            /\ lockq' = (IF holder # "exec"
                         THEN SelectSeq(lockq, LAMBDA u : u # "exec")
                         ELSE IF lockq = << >> THEN lockq ELSE Tail(lockq))
            /\ inflight' = [inflight EXCEPT !["exec"] = "none"]
            /\ pc' = [pc EXCEPT !["exec"] = "done"]
            /\ ret' = ret
            /\ result' = "raised"
    /\ UNCHANGED << envv, taskres, attempt, rejected, evv, rampv, monv, telv,
                    exit_code >>
    /\ NoCycle

NextCancel ==
    \/ Next
    \/ CancelExecute
    \/ Cancelled("mon") /\ Runs("mon")

\* Runs that may be cancelled: the default altitude parameters and a
\* published position slot.
InitCancel ==
    /\ Init
    /\ config.alt.initial_climb_height = 5
    /\ UsualOptions(config)
    /\ present = Slots

SpecCancel == InitCancel /\ [][NextCancel]_vars

\* The default flight parameters, cancelled or not, with the position slot
\* published or never written.
InitClimb ==
    /\ Init
    /\ DefaultFlight(config)
    /\ UsualOptions(config)

SpecClimb == InitClimb /\ [][NextCancel]_vars

\* ------------------------------------------------------- TelemetryHandler
\* start_telemetry, the four subscriber coroutines and stop_telemetry, with
\* the transition itself left at its start.  A subscriber task is "created"
\* until its first step, "subscribed" while it waits for its stream, and
\* ends "stopped" (CancelledError caught and logged), "failed" (Exception
\* caught and logged) or "cancelled" (cancelled before its first step).

flightv == << config, post_action, pc, ret, taskres, result, holder, lockq,
             inflight, attempt, rejected, abort_event, transition_event,
             ramping_started_event, step, tilt, throttle, throttle_step,
             fwd_transition_start_time,
             over, over_tilt_steps, snap, max_altitude, elapsed_time,
             fw_completed, must_cancel, cancelled_ext, stepped, exit_code >>

SubRunning == {"created", "subscribed"}

\* gather(..., return_exceptions=False)
ReturnExceptionsOff == FALSE
\* asyncio.gather(*self.subscriptions, return_exceptions=True)
ReturnExceptions == TRUE

\* The slot the transition reads follows the cache.
Publish(data) ==
    /\ telemetry_data' = data
    /\ present' = data \cap Slots

\* self.subscriptions = [create_task(...) x 4]: the list is overwritten, and
\* tasks of an earlier call that still run are no longer reachable.
start_telemetry ==
    /\ stop_pc = "idle"
    /\ subscriptions' = Streams
    /\ orphans' = orphans \cup { s \in Streams : sub[s] \in SubRunning }
    /\ sub' = [s \in Streams |-> "created"]
    /\ sub_cancel' = [s \in Streams |-> FALSE]
    /\ stops' = 0
    /\ UNCHANGED << telemetry_data, present, stop_pc, stop_raised, flightv >>

\* What "await asyncio.gather(...)" gives once every task of the list is
\* done: a task that ended cancelled is a result with return_exceptions, and
\* cancels the gather without; then self.subscriptions.clear().
GatherDone(list, state) ==
    IF ~ReturnExceptions /\ \E s \in list : state[s] = "cancelled"
    THEN /\ stop_raised' = TRUE
         /\ subscriptions' = list
         /\ stops' = stops
    ELSE /\ stop_raised' = stop_raised
         /\ subscriptions' = {}
         /\ stops' = (IF stops < MaxStops THEN stops + 1 ELSE stops)

stop_telemetry ==
    \* the call: cancel every task of the list, await gather
    \/ /\ stop_pc = "idle"
       /\ ~stop_raised
       /\ sub_cancel' = [s \in Streams |->
                           sub_cancel[s]
                           \/ (s \in subscriptions /\ sub[s] \in SubRunning)]
       /\ IF \A s \in subscriptions : sub[s] \notin SubRunning
          THEN /\ GatherDone(subscriptions, sub)
               /\ stop_pc' = "idle"
          ELSE /\ stop_pc' = "gather"
               /\ UNCHANGED << subscriptions, stops, stop_raised >>
       /\ UNCHANGED << telemetry_data, present, sub, orphans, flightv >>
    \* every task of the list is done: gather completes
    \/ /\ stop_pc = "gather"
       /\ \A s \in subscriptions : sub[s] \notin SubRunning
       /\ GatherDone(subscriptions, sub)
       /\ stop_pc' = "idle"
       /\ UNCHANGED << telemetry_data, present, sub, sub_cancel, orphans,
                       flightv >>

\* One step of the subscriber coroutine of stream s.
subscribe(s) ==
    \* first step: "async for" subscribes and waits
    \/ /\ sub[s] = "created" /\ ~sub_cancel[s]
       /\ sub' = [sub EXCEPT ![s] = "subscribed"]
       /\ UNCHANGED << telemetry_data, present, sub_cancel, subscriptions,
                       orphans, stop_pc, stops, stop_raised, flightv >>
    \* cancelled before its first step: the coroutine never runs
    \/ /\ sub[s] = "created" /\ sub_cancel[s]
       /\ sub' = [sub EXCEPT ![s] = "cancelled"]
       /\ sub_cancel' = [sub_cancel EXCEPT ![s] = FALSE]
       /\ UNCHANGED << telemetry_data, present, subscriptions, orphans,
                       stop_pc, stops, stop_raised, flightv >>
    \* a message: self.telemetry_data[key] = value, display_telemetry
    \/ /\ sub[s] = "subscribed" /\ ~sub_cancel[s]
       /\ Publish(telemetry_data \cup {s})
       /\ UNCHANGED << sub, sub_cancel, subscriptions, orphans, stop_pc,
                       stops, stop_raised, flightv >>
    \* the stream raises: "except Exception" logs, the coroutine returns
    \/ /\ sub[s] = "subscribed" /\ ~sub_cancel[s]
       /\ sub' = [sub EXCEPT ![s] = "failed"]
       /\ UNCHANGED << telemetry_data, present, sub_cancel, subscriptions,
                       orphans, stop_pc, stops, stop_raised, flightv >>
    \* CancelledError at the stream: logged, the coroutine returns
    \/ /\ sub[s] = "subscribed" /\ sub_cancel[s]
       /\ sub' = [sub EXCEPT ![s] = "stopped"]
       /\ sub_cancel' = [sub_cancel EXCEPT ![s] = FALSE]
       /\ UNCHANGED << telemetry_data, present, subscriptions, orphans,
                       stop_pc, stops, stop_raised, flightv >>

\* A subscriber of an earlier start_telemetry goes on: a message, or the
\* error that ends it.
orphan(s) ==
    /\ s \in orphans
    /\ \/ Publish(telemetry_data \cup {s}) /\ orphans' = orphans
       \/ orphans' = orphans \ {s} /\ UNCHANGED << telemetry_data, present >>
    /\ UNCHANGED << sub, sub_cancel, subscriptions, stop_pc, stops,
                    stop_raised, flightv >>

\* get_telemetry: dict(self.telemetry_data), the keys that carry a value;
\* the copy holds the values alone, with nothing that tells their age.
get_telemetry == telemetry_data

NextTelemetry ==
    \/ start_telemetry
    \/ stop_telemetry
    \/ \E s \in Streams : subscribe(s)
    \/ \E s \in Streams : orphan(s)

\* An empty cache, the configuration defaults.
InitTelemetry ==
    /\ Init
    /\ DefaultFlight(config)
    /\ UsualOptions(config)
    /\ ~config.safety_lock
    /\ present = {}

SpecTelemetry == InitTelemetry /\ [][NextTelemetry]_vars

\* ------------------------------------------------------------------ progress
\* The monitoring task is due for a cycle: it sleeps between two cycles or
\* has been started, ramping has begun and nobody cancelled it.
CycleDue ==
    /\ pc["mon"] \in {"mon_start", "mon_sleep"}
    /\ ~must_cancel["mon"]
    /\ RampingStartedWait

\* The last step was a cycle run more than transition_timeout after the
\* start of ramping.
CycleLate == snap.live /\ snap.since_ramping > transition_timeout

\* Time advances: a monitoring loop that goes on comes to a cycle that runs
\* more than transition_timeout after the start of ramping.
TimeAdvances == []<>(~CycleDue \/ CycleLate)

\* Runs of the default flight parameters with a published position slot.
InitLive ==
    /\ Init
    /\ DefaultFlight(config)
    /\ UsualOptions(config)
    /\ present = Slots

\* The event loop runs a coroutine that is ready (a command that is awaited
\* returns or raises, a sleep ends, a lock that was handed over is taken, a
\* cancellation is delivered) as long as there is one.
SpecLive ==
    /\ InitLive
    /\ [][Next]_vars
    /\ WF_vars(Next)
    /\ TimeAdvances

\* ------------------------------------------------------------ main_control
\* main(), from "transition_result = await transition_task" on, and the
\* "__main__" block around asyncio.run(main()).

\* The exit status after the transition task has ended with outcome r.  Each
\* branch of the status test only logs; an exception of the task is logged
\* by "except Exception"; "finally" stops the telemetry and disconnects;
\* main returns None, asyncio.run returns and the interpreter ends with
\* status 0.  sys.exit(1) is reached only before the transition (no
\* configuration, no connection) or by an exception that leaves main.
ExitCode(r) == 0

\* The transition task has ended: main is resumed, logs the outcome, runs
\* stop_telemetry (every task of the list has ended, so its gather completes
\* at once) and disconnect, and returns; asyncio.run cancels the tasks that
\* are still pending before it returns.
main ==
    /\ pc["exec"] = "done"
    /\ exit_code = None
    /\ stop_pc = "idle"
    /\ \A s \in subscriptions : sub[s] \notin SubRunning
    /\ GatherDone(subscriptions, sub)
    /\ exit_code' = ExitCode(result)
    /\ must_cancel' =
         [t \in Tasks |->
            must_cancel[t] \/ (t # "exec" /\ pc[t] \notin {"idle", "done"})]
    /\ stepped' = {}
    /\ UNCHANGED << envv, ctlv, ret, taskres, execv, evv, rampv, monv,
                    cancelled_ext, telemetry_data, sub, sub_cancel, orphans,
                    stop_pc >>
    /\ NoCycle

NextMain ==
    \/ Next
    \/ main
    \/ Cancelled("mon") /\ Runs("mon")

\* Runs that main waits for: the default altitude parameters, the usual
\* options and a published position slot.
InitMain ==
    /\ Init
    /\ config.alt.initial_climb_height = 5
    /\ UsualOptions(config)
    /\ present = Slots

SpecMain == InitMain /\ [][NextMain]_vars


\* ------------------------------------------------------------------ claims
Returned == pc["exec"] = "done"
InFlight == { t \in Tasks : inflight[t] # "none" }

\* The predicates of a monitoring cycle, in the order of the failsafe list,
\* as statements about the values s the cycle derived from its snapshot.
PredicateOrder ==
    << "roll", "max_altitude", "pitch", "altitude_loss", "min_altitude",
       "climb_rate", "timeout" >>

PredicateTrue(n, s) ==
    CASE n = "roll" -> s.roll > max_roll_failsafe \/ -s.roll > max_roll_failsafe
      [] n = "max_altitude" -> s.altitude > max_altitude_failsafe
      [] n = "pitch" ->
            s.pitch > max_pitch_failsafe \/ -s.pitch > max_pitch_failsafe
      [] n = "altitude_loss" -> s.altitude_loss > altitude_loss_limit
      [] n = "min_altitude" ->
            s.altitude < config.alt.altitude_failsafe_threshold
      [] n = "climb_rate" -> s.climb_rate < climb_rate_failsafe_threshold
      [] n = "timeout" -> s.elapsed_time > transition_timeout

TrueAt(s) == { i \in 1..7 : PredicateTrue(PredicateOrder[i], s) }
FailsafeTrue(s) == \E i \in 1..6 : i \in TrueAt(s)
First(S) == CHOOSE i \in S : \A j \in S : i <= j

\* The monitoring task has just taken the abort branch of a cycle.
CycleAborted ==
    /\ abort_event
    /\ ~transition_event
    /\ ret["mon"] = "return_failure"
    /\ pc["mon"] = AbortFirst

\* The monitoring task has just taken the success branch of a cycle.
CycleSucceeded ==
    /\ transition_event
    /\ ~abort_event
    /\ pc["mon"] = "st_accel"

\* C1: when monitoring has tripped a failsafe or the timeout (only then is
\* abort_event set), execute_transition returns "failure".
C1_FailsafeReturnsFailure ==
    (Returned /\ abort_event) => result = "failure"

\* C2: with safety_lock false, execute_transition returns "success" only if
\* transition_to_fixedwing was issued and completed without error.
C2_SuccessOnlyAfterFixedwing ==
    (Returned /\ ~config.safety_lock /\ result = "success") => fw_completed

\* C3: with safety_lock true no autopilot command is ever awaited, the
\* command lock is never taken and the ramping and monitoring tasks are
\* never started.
C3_SafetyLockIssuesNothing ==
    config.safety_lock =>
        /\ InFlight = {}
        /\ holder = "none"
        /\ pc["ramp"] = "idle"
        /\ pc["mon"] = "idle"
        /\ pc["exec"] \in {"start", "done"}

C3_Witness ==
    /\ config.safety_lock
    /\ Returned
    /\ result # "pending"

\* C4: whenever execute_transition has returned, what it returned is
\* "success" or "failure".
C4_StatusIsSuccessOrFailure ==
    Returned => result \in {"success", "failure"}

\* C5: no exception leaves execute_transition: a run in which a command
\* failed ends with execute_transition returning a status.
C5_NoExceptionEscapes ==
    /\ result # "raised"
    /\ (Returned /\ ~config.safety_lock) => result \in {"success", "failure"}

\* An exception reached the handlers of execute_transition, once re-raised
\* by a phase after its own abort and once from the ramping task.
C5_Witness ==
    /\ Returned
    /\ result = "failure"
    /\ ret["exec"] = "return_failure"
    /\ taskres["ramp"] = "exception"

\* C6: a task that awaits an autopilot command holds command_lock.
C6_CommandsUnderLock ==
    \A t \in Tasks : inflight[t] # "none" => holder = t

\* C7: at most one autopilot command is in flight at any time.
C7_OneCommandInFlight ==
    Cardinality(InFlight) <= 1

C10_JustInTimeSuccess ==
    ( /\ snap.live
      /\ snap.airspeed >= transition_air_speed
      /\ ~FailsafeTrue(snap)
      /\ snap.elapsed_time > transition_timeout ) =>
        (snap.verdict = "success" /\ CycleSucceeded)

C10_Witness ==
    /\ snap.live
    /\ snap.airspeed >= transition_air_speed
    /\ snap.elapsed_time > transition_timeout
    /\ CycleSucceeded

\* C11 as stated: in the cycle that sets transition_event, elapsed_time is
\* at most transition_timeout.
C11_SuccessWithinTimeout ==
    (snap.live /\ snap.verdict = "success") =>
        snap.elapsed_time <= transition_timeout

\* C11, amended: the cycle that sets transition_event may itself have
\* elapsed_time > transition_timeout, but every cycle before it in that run
\* had elapsed_time <= transition_timeout (the loop only goes on after such
\* a cycle), so success comes at most one cycle after the timeout.
C11_SuccessAtMostOneCycleLate ==
    [][ (~transition_event /\ transition_event') =>
            /\ elapsed_time <= transition_timeout
            /\ snap'.live
            /\ snap'.verdict = "success"
            /\ snap'.elapsed_time >= elapsed_time ]_vars

\* A success cycle past the timeout that was not the first cycle of the run.
C11_Witness ==
    /\ snap.live
    /\ snap.verdict = "success"
    /\ snap.elapsed_time > transition_timeout
    /\ snap.max_altitude > snap.altitude
    /\ transition_event

\* C12: transition_event and abort_event are never both set, in any state
\* and so also when execute_transition has returned.
C12_EventsExclusive ==
    ~(transition_event /\ abort_event)

\* execute_transition has returned from a run in which success was detected
\* and the abort sequence was run afterwards by the monitoring task.
C12_Witness ==
    /\ Returned
    /\ transition_event
    /\ ~abort_event
    /\ taskres["mon"] = "failure"

\* C13: when execute_transition has returned, each of the ramping and
\* monitoring tasks was never started, has ended, or has been cancelled, so
\* neither can issue a command afterwards.
C13_NoTaskOutlivesExecute ==
    Returned =>
        \A t \in {"ramp", "mon"} :
            pc[t] \in {"idle", "done"} \/ must_cancel[t]

\* A command of a Phase 5 task raised an error that the task did not
\* swallow: the ramping task ended by exception, or the monitoring task
\* failed after it had detected success.
Phase5CommandError ==
    \/ taskres["ramp"] = "exception"
    \/ taskres["mon"] = "failure" /\ transition_event

\* C14: when a command of the ramping or the monitoring task has raised an
\* error in Phase 5, abort_event is set and execute_transition returns
\* "failure".
C14_TaskErrorSetsAbortAndFails ==
    (Returned /\ Phase5CommandError) =>
        (abort_event /\ result = "failure")

\* C15: once execute_transition has been cancelled in one of Phases 1-5 it
\* is in the abort sequence entered from its own handler (starting with
\* transition_to_multicopter exactly when that is configured), or it has
\* returned "failure" from there.
C15_CancelRunsAbortAndFails ==
    cancelled_ext =>
        /\ ret["exec"] = "return_failure"
        /\ \/ pc["exec"] \in {"ab_stop", "ab_rtl"}
           \/ pc["exec"] = "ab_mc" /\ config.failsafe_multicopter_transition
           \/ Returned /\ result = "failure"

\* Cancelled in Phase 5, with both tasks forked, and returned.
C15_Witness ==
    /\ cancelled_ext
    /\ Returned
    /\ result = "failure"
    /\ ramping_started_event

\* C16: abort_transition commands transition_to_multicopter only when
\* failsafe_multicopter_transition is set, then offboard stop, then
\* return_to_launch; whatever the outcome of a step the next one follows,
\* and after return_to_launch control goes back to the caller without an
\* exception.
C16_AbortStepsInOrder ==
    [][ /\ \A t \in Tasks :
            /\ (pc[t] # "ab_mc" /\ pc'[t] = "ab_mc") =>
                   config.failsafe_multicopter_transition
            /\ (pc[t] # "ab_stop" /\ pc'[t] = "ab_stop") =>
                   (pc[t] = "ab_mc" \/ ~config.failsafe_multicopter_transition)
            /\ (pc[t] # "ab_rtl" /\ pc'[t] = "ab_rtl") => pc[t] = "ab_stop"
            /\ (pc[t] = "ab_mc" /\ pc'[t] # "ab_mc" /\ ~must_cancel[t]) =>
                   pc'[t] = "ab_stop"
            /\ (pc[t] = "ab_stop" /\ pc'[t] # "ab_stop" /\ ~must_cancel[t]) =>
                   pc'[t] = "ab_rtl"
        /\ result' # "raised" ]_vars

\* The last step of a full abort sequence is being awaited.
C16_Witness ==
    /\ config.failsafe_multicopter_transition
    /\ pc["exec"] = "ab_rtl"
    /\ inflight["exec"] = "return_to_launch"
    /\ ret["exec"] = "return_failure"

\* C17: the yaw of every NED climb setpoint and every attitude setpoint is
\* launch_yaw_angle when transition_yaw_angle is -1, and transition_yaw_angle
\* otherwise.
C17_YawOverrideLaw ==
    \A t \in Tasks :
        (pc[t] \in {"climb2", "ramp_att", "over_att"} /\ inflight[t] # "none") =>
            yaw_deg(pc[t]) = IF config.transition_yaw_angle = -1
                             THEN launch_yaw_angle
                             ELSE config.transition_yaw_angle

\* C18: with safety_lock false and enable_takeoff false, no arm,
\* set-takeoff-altitude or takeoff command is issued.
C18_TakeoffGated ==
    (~config.safety_lock /\ ~config.enable_takeoff) =>
        \A t \in Tasks :
            inflight[t] \notin {"arm", "set_takeoff_altitude", "takeoff"}

\* C19: once offboard.start() has been rejected on the three attempts of
\* Phase 2, no further attempt is made (three offboard-start commands in
\* all), the abort sequence follows the last wait, execute_transition ends
\* only out of the abort sequence and with "failure", and neither a climb
\* nor an attitude setpoint is commanded.
C19_RetryExhaustionAborts ==
    [][ (rejected' = retries /\ pc'["ramp"] = "idle") =>
            /\ attempt' = retries
            /\ pc'["exec"] \in {"ob_sleep", "ab_mc", "ab_stop", "ab_rtl", "done"}
            /\ (pc["exec"] = "ob_sleep" /\ pc'["exec"] # "ob_sleep") =>
                   pc'["exec"] = AbortFirst
            /\ pc'["exec"] = "done" =>
                   (pc["exec"] = "ab_rtl" /\ result' = "failure")
            /\ \A t \in Tasks :
                   inflight'[t] \notin {"set_velocity_body", "set_velocity_ned",
                                        "set_attitude"} ]_vars

\* Phase 2 was rejected three times and execute_transition has returned.
C19_Witness ==
    /\ rejected = retries
    /\ pc["ramp"] = "idle"
    /\ Returned
    /\ result = "failure"

\* C20: offboard start is commanded only by the coroutine whose zero
\* body-velocity setpoint of the same attempt has just returned, with the
\* lock still held; a setpoint that fails leads elsewhere.
C20_StartFollowsSetpoint ==
    [][ \A t \in Tasks :
            (pc'[t] = "ob_start" /\ pc[t] # "ob_start") =>
                /\ pc[t] = "ob_setpoint"
                /\ inflight[t] = "set_velocity_body"
                /\ inflight'[t] = "offboard_start"
                /\ holder = t /\ holder' = t
                /\ attempt' = attempt ]_vars

\* Offboard start is commanded on the last attempt of Phase 2.
C20_Witness ==
    /\ pc["exec"] = "ob_start"
    /\ inflight["exec"] = "offboard_start"
    /\ attempt = retries
    /\ pc["ramp"] = "idle"

\* The phase of execute_transition a site of its coroutine belongs to
\* (6: abort_transition or returned).
PhaseOf(site) ==
    CASE site = "start" -> 0
      [] site \in {"arm", "set_takeoff_altitude", "takeoff", "takeoff_sleep"} -> 1
      [] site \in {"ob_setpoint", "ob_start", "ob_sleep"} -> 2
      [] site \in {"climb1", "climb1_sleep"} -> 3
      [] site \in {"climb2", "climb2_sleep"} -> 4
      [] site \in {"wait", "gather"} -> 5
      [] OTHER -> 6

\* C21: the phases follow each other in order.  The body-frame climb is
\* entered only out of an offboard start that returned, the NED climb only
\* with an altitude >= initial_climb_height read by the climb loop, Phase 5
\* only with an altitude >= transition_base_altitude read; the phase of
\* execute_transition never goes back, and each setpoint is commanded in
\* its own phase only.
C21_PhasesInOrder ==
    [][ LET p == PhaseOf(pc["exec"])
            q == PhaseOf(pc'["exec"])
        IN  /\ q >= p
            /\ (p < 3 /\ q \in {3, 4, 5}) =>
                   (pc["exec"] = "ob_start" /\ inflight["exec"] = "offboard_start")
            /\ (p < 4 /\ q \in {4, 5}) =>
                   snap'.climb_altitude >= config.alt.initial_climb_height
            /\ (p < 5 /\ q = 5) =>
                   snap'.climb_altitude >= config.alt.transition_base_altitude
            /\ pc'["exec"] = "climb1" => inflight'["exec"] \in {"none", "set_velocity_body"}
            /\ inflight'["exec"] = "set_velocity_body" => q \in {2, 3}
            /\ inflight'["exec"] = "set_velocity_ned" => q = 4
            /\ \A t \in Tasks :
                   inflight'[t] = "set_attitude" => (t = "ramp" /\ q >= 5) ]_vars

\* An attitude setpoint of Phase 5 is awaited in a run with the default
\* climb targets (5 m and 10 m).
C21_Witness ==
    /\ config.alt.initial_climb_height = 5
    /\ pc["ramp"] = "ramp_att"
    /\ inflight["ramp"] = "set_attitude"
    /\ pc["exec"] = "wait"

\* C22: the thrust of an attitude setpoint is at most max_throttle, and at
\* least the thrust of the setpoint before it, whatever throttle was read
\* at ramp entry.
C22_ThrustMonotoneAndCapped ==
    [][ pc'["ramp"] \in {"ramp_att", "over_att"} =>
            /\ throttle' <= max_throttle
            /\ pc["ramp"] \in {"ramp_sleep", "over_sleep"} =>
                   throttle' >= throttle ]_vars

\* C23: the pitch of an attitude setpoint is at most 0 and at most the
\* pitch of the setpoint before it; it is at least -max_tilt_pitch in the
\* nominal loop and at least -max_allowed_tilt in the over-tilt loop.
C23_PitchMonotoneAndBounded ==
    [][ pc'["ramp"] \in {"ramp_att", "over_att"} =>
            /\ tilt' <= 0
            /\ pc'["ramp"] = "ramp_att" => tilt' >= max_tilt
            /\ pc'["ramp"] = "over_att" => tilt' >= -1 * max_allowed_tilt
            /\ pc["ramp"] \in {"ramp_sleep", "over_sleep"} => tilt' <= tilt ]_vars

\* An over-tilt setpoint below -max_tilt_pitch is awaited.
C23_Witness ==
    /\ pc["ramp"] = "over_att"
    /\ inflight["ramp"] = "set_attitude"
    /\ tilt < max_tilt

\* C24: with over_tilt_enabled, when the nominal loop ends with tilt at
\* -max_tilt_pitch and neither event set, the ramping task goes on with an
\* attitude setpoint one tilt step lower (not below -max_allowed_tilt) and
\* thrust max_throttle.
C24_OverTiltContinues ==
    [][ ( /\ config.over_tilt_enabled
          /\ pc["ramp"] = "ramp_sleep"
          /\ pc'["ramp"] # "ramp_sleep"
          /\ ~must_cancel["ramp"]
          /\ step + 1 >= total_steps
          /\ tilt = max_tilt
          /\ ~abort_event /\ ~transition_event ) =>
            /\ pc'["ramp"] = "over_att"
            /\ tilt' = Max(tilt + tilt_step, -1 * max_allowed_tilt)
            /\ throttle' = max_throttle ]_vars

\* C25: in every monitoring cycle the peak after the update is the altitude
\* of the cycle when it is the first one, and the larger of the previous
\* peak and the altitude of the cycle otherwise: it is the maximum of the
\* altitudes seen, at least the current altitude and never below the
\* previous peak.
C25_PeakIsRunningMaximum ==
    [][ snap'.live =>
            /\ snap'.max_altitude >= snap'.altitude
            /\ max_altitude = None => snap'.max_altitude = snap'.altitude
            /\ max_altitude # None =>
                   /\ snap'.max_altitude = Max(max_altitude, snap'.altitude)
                   /\ snap'.max_altitude >= max_altitude ]_vars

\* A cycle whose altitude is below the peak of the earlier cycles.
C25_Witness ==
    /\ snap.live
    /\ snap.max_altitude > snap.altitude

\* C26: abort_event is set only by a monitoring cycle in whose snapshot one
\* of the six failsafe predicates or the timeout predicate holds.
C26_AbortOnlyOnTrippedPredicate ==
    [][ (~abort_event /\ abort_event') =>
            /\ snap'.live
            /\ TrueAt(snap') # {}
            /\ snap'.verdict \in { PredicateOrder[i] : i \in TrueAt(snap') } ]_vars

\* abort_event was set by a cycle in which only the timeout held.
C26_Witness ==
    /\ abort_event
    /\ snap.live
    /\ TrueAt(snap) = {7}

\* C27: once transition_to_fixedwing has completed, execute_transition
\* returns "success" whether the post-transition action and the fallback
\* return_to_launch succeed or fail (runs in which the ramping task itself
\* ended with an error are left aside).
C27_PostActionFailureKeepsSuccess ==
    (Returned /\ fw_completed /\ taskres["ramp"] # "exception") =>
        result = "success"

\* C28: in _start_mission_from_waypoint, whatever the outcome of
\* download_mission the next command is set_current_mission_item, and
\* whatever the outcome of that one the next command is start_mission.
C28_MissionStepsIndependent ==
    [][ /\ ( /\ pc["mon"] = "ms_download"
             /\ inflight["mon"] = "download_mission"
             /\ pc'["mon"] # "ms_download"
             /\ ~must_cancel["mon"] ) => pc'["mon"] = "ms_set"
        /\ ( /\ pc["mon"] = "ms_set"
             /\ inflight["mon"] = "set_current_mission_item"
             /\ pc'["mon"] # "ms_set"
             /\ ~must_cancel["mon"] ) => pc'["mon"] = "ms_start" ]_vars

\* C29: no call of stop_telemetry ends with an exception, and when one or
\* more calls in a row have returned, with or without a start_telemetry
\* before them, self.subscriptions is empty and no task of the last
\* start_telemetry is running.
C29_StopIdempotent ==
    /\ ~stop_raised
    /\ stops >= 1 =>
          /\ subscriptions = {}
          /\ \A s \in Streams : sub[s] \notin SubRunning

\* stop_telemetry has returned twice in a row after a start_telemetry some
\* of whose tasks had not run yet when they were cancelled.
C29_Witness ==
    /\ stops = 2
    /\ \E s \in Streams : sub[s] = "cancelled"
    /\ \E s \in Streams : sub[s] = "stopped"

\* C30: once the subscriber of a stream has ended on an error of its
\* stream, the cache no longer hands out that slot as a value (it is marked
\* stale).
C30_FailedSubscriberMarksStale ==
    \A s \in Streams :
        (sub[s] = "failed" /\ s \notin orphans) => s \notin get_telemetry

\* C31: when main has ended, the exit status of the process is 1 if the
\* transition result is "failure" and 0 if it is "success".
C31_ExitCodeFollowsResult ==
    exit_code # None =>
        /\ result = "failure" => exit_code = 1
        /\ result = "success" => exit_code = 0

\* C32: a task that has ended (normally, by an exception or by
\* cancellation, also in the middle of a command) or was never started
\* neither holds command_lock nor waits for it, so the lock is free or with
\* a coroutine that still runs.
C32_NoLockLeftHeld ==
    \A t \in Tasks :
        pc[t] \in {"idle", "done"} =>
            /\ holder # t
            /\ \A i \in 1..Len(lockq) : lockq[i] # t

\* The monitoring task was cancelled and has ended, and the abort sequence
\* of the cancelled execute_transition holds the lock for a command.
C32_Witness ==
    /\ cancelled_ext
    /\ must_cancel["mon"]
    /\ pc["mon"] = "done"
    /\ holder = "exec"
    /\ inflight["exec"] # "none"
    /\ ret["exec"] = "return_failure"

\* C33: in every monitoring cycle the altitude loss is the peak altitude
\* minus the altitude of the cycle, also for a peak of 0, and a cycle in
\* which that difference exceeds altitude_loss_limit while no earlier
\* predicate (roll, max altitude, pitch) holds aborts on altitude loss.
C33_AltitudeLossIsPeakMinusAltitude ==
    snap.live =>
        /\ snap.altitude_loss = snap.max_altitude - snap.altitude
        /\ ( /\ snap.max_altitude - snap.altitude > altitude_loss_limit
             /\ TrueAt(snap) \cap {1, 2, 3} = {} ) =>
               (snap.verdict = "altitude_loss" /\ CycleAborted)

\* C34: every attitude setpoint of the ramping task, nominal or over-tilt,
\* is begun with transition_event and abort_event both unset, and once one
\* of them is set the ramping task, resumed from its sleep, ends without a
\* further command.
C34_NoSetpointAfterEvent ==
    [][ /\ ( /\ inflight'["ramp"] = "set_attitude"
             /\ inflight["ramp"] # "set_attitude" ) =>
               (~abort_event /\ ~transition_event)
        /\ ( /\ pc["ramp"] \in {"ramp_sleep", "over_sleep"}
             /\ pc'["ramp"] # pc["ramp"]
             /\ (abort_event \/ transition_event) ) =>
               (pc'["ramp"] = "done" /\ inflight'["ramp"] = "none") ]_vars

\* C35: every monitoring cycle runs with ramping_started_event set and
\* fwd_transition_start_time assigned, and the elapsed time it compares
\* with transition_timeout is the time since the ramping task started, not
\* the time since the entry of execute_transition.
C35_ElapsedSinceRampingStart ==
    snap.live =>
        /\ ramping_started_event
        /\ fwd_transition_start_time # None
        /\ snap.elapsed_time = snap.since_ramping

\* A cycle that ran out of time, transition_timeout after the start of
\* ramping, aborted on the timeout.
C35_Witness ==
    /\ snap.live
    /\ snap.since_ramping > transition_timeout
    /\ snap.verdict = "timeout"
    /\ fwd_transition_start_time = RampDelay

\* C36: once ramping has started, the monitoring task comes to set
\* transition_event or abort_event and execute_transition comes to return,
\* whatever the telemetry values; a cycle with elapsed_time >
\* transition_timeout is the last one of the loop.
C36_Phase5Terminates ==
    /\ [](  (snap.live /\ snap.elapsed_time > transition_timeout) =>
              /\ snap.verdict # "continue"
              /\ (abort_event \/ transition_event)
              /\ pc["mon"] # "mon_sleep" )
    /\ ramping_started_event ~>
          (Returned /\ (abort_event \/ transition_event))

\* Ramping ran to its end, the monitoring loop ended in an abort, and
\* execute_transition has returned.
C36_Witness ==
    /\ ramping_started_event
    /\ Returned
    /\ abort_event
    /\ taskres["mon"] = "failure"
    /\ taskres["ramp"] = "None"

\* The sites of the climb loop of phase ph and its target altitude.
ClimbSites(ph) ==
    IF ph = 1 THEN {"climb1", "climb1_sleep"} ELSE {"climb2", "climb2_sleep"}
ClimbGoal(ph) ==
    IF ph = 1 THEN config.alt.initial_climb_height
    ELSE config.alt.transition_base_altitude

\* C37: a climb loop is left only with an altitude read at or above its
\* target, by an error of its setpoint command (abort_transition follows)
\* or by external cancellation; resumed from its sleep with a lower
\* altitude (0 when the position slot was never written) it publishes the
\* climb setpoint again, any number of times, so that a run whose position
\* slot is never written does not get past the initial climb.
C37_ClimbHasNoTimeout ==
    /\ []( (present = {} /\ config.alt.initial_climb_height > 0) =>
              (pc["ramp"] = "idle" /\ pc["exec"] \notin {"climb2", "wait"}) )
    /\ [][ \A ph \in {1, 2} :
             LET climb == IF ph = 1 THEN "climb1" ELSE "climb2"
                 sleep == IF ph = 1 THEN "climb1_sleep" ELSE "climb2_sleep"
                 cancel == cancelled_ext' /\ ~cancelled_ext
             IN  /\ (pc["exec"] = sleep /\ pc'["exec"] # sleep) =>
                        \/ cancel
                        \/ /\ "climb_altitude" \in DOMAIN snap'
                           /\ present = {} => snap'.climb_altitude = 0
                           /\ IF snap'.climb_altitude < ClimbGoal(ph)
                              THEN pc'["exec"] = climb
                              ELSE pc'["exec"] \notin ClimbSites(ph)
                 /\ (pc["exec"] = climb /\ pc'["exec"] \notin ClimbSites(ph)) =>
                        \/ cancel
                        \/ /\ inflight["exec"] # "none"
                           /\ pc'["exec"] = AbortFirst
                           /\ ret'["exec"] = "raise" ]_vars

\* The position slot was never written: the initial climb loop read 0.0,
\* below its target, and awaits its setpoint.
C37_Witness ==
    /\ present = {}
    /\ pc["exec"] = "climb1"
    /\ inflight["exec"] = "set_velocity_body"
    /\ "climb_altitude" \in DOMAIN snap
    /\ snap.climb_altitude < config.alt.initial_climb_height

C39_AbortRunAtMostOnce ==
    [][ (pc'["exec"] = AbortFirst /\ pc["exec"] # AbortFirst) =>
            /\ pc["exec"] # "ab_rtl"
            /\ taskres["ramp"] # "exception" ]_vars

\* A task is inside abort_transition, or the ramping task has left it and
\* ended with the exception its handler re-raises.
AbortBegun ==
    \/ \E t \in Tasks : pc[t] \in {"ab_mc", "ab_stop", "ab_rtl"}
    \/ taskres["ramp"] = "exception"

\* C40: once the abort sequence has begun in a run, by any task, no task
\* begins a transition_to_fixedwing command or an attitude setpoint while
\* execute_transition has not returned.
C40_NoHandOffAfterAbort ==
    [][ \A t \in Tasks :
            ( /\ AbortBegun
              /\ ~Returned
              /\ inflight'[t] \in {"transition_to_fixedwing", "set_attitude"}
              /\ inflight[t] # inflight'[t] ) => FALSE ]_vars

====
